---- MODULE Spec2Model ----
(***************************************************************************)
(* The Clankerblox OpenClaw agent worker (openclaw_skill/index.js): the    *)
(* identity file, setup and registration, the poll / process / submit      *)
(* worker loop with its consecutive-error backoff, the provider call and   *)
(* the JSON extractor.                                                     *)
(*                                                                         *)
(* One action is one run of the single JavaScript thread from the event    *)
(* that resumes it (a response, a timer, a signal) to its next await.      *)
(* Texts that the code only formats into messages are TLA+ strings; model  *)
(* output is a sequence of lexical tokens.                                 *)
(***************************************************************************)
EXTENDS Integers, Sequences, FiniteSets, TLC

\* ------------------------------------------------------------------------
\* Bounds of the explored environment
\* ------------------------------------------------------------------------

\* failures (of a fetch, a prompt, a submission, a save in the loop) the
\* environment produces in a general run
MaxFaults == 2

\* failures the environment produces in a run that explores the backoff
MaxStreak == 10

\* the identity file can fail to be written at most this many times
MaxDiskFaults == 1

\* the coordinator hands out work only while it has acknowledged fewer
\* submissions than this
MaxAcks == 1

\* ------------------------------------------------------------------------
\* JavaScript values
\* ------------------------------------------------------------------------

\* null / undefined where the code expects a string
Null == "<null>"

\* truthiness of a string-or-null value
TruthyStr(s) == s # Null /\ s # ""

\* ------------------------------------------------------------------------
\* Program constants
\* ------------------------------------------------------------------------

MAX_CONSECUTIVE_ERRORS == 10

ERROR_BACKOFF_MS == 15000

POLL_INTERVAL_MS == 5000

DEFAULT_SERVER == "http://57.129.44.62:8000"

\* points per role (the other catalog fields are only printed)
ROLES ==
  [ trend_researcher   |-> 10,
    theme_designer     |-> 15,
    world_architect    |-> 25,
    quality_reviewer   |-> 15,
    script_writer      |-> 30,
    tycoon_architect   |-> 25,
    simulator_designer |-> 25 ]

ROLE_KEYS == DOMAIN ROLES

\* every role of ROLES has a system prompt
ROLE_PROMPTS == ROLE_KEYS

\* per provider: the environment variable of its credential, and where the
\* credential travels ("url" query or request "header")
AI_BACKENDS ==
  [ gemini   |-> [envKey |-> "GEMINI_API_KEY",    keyIn |-> "url"],
    claude   |-> [envKey |-> "ANTHROPIC_API_KEY", keyIn |-> "header"],
    gpt4o    |-> [envKey |-> "OPENAI_API_KEY",    keyIn |-> "header"],
    deepseek |-> [envKey |-> "DEEPSEEK_API_KEY",  keyIn |-> "header"] ]

AI_BACKEND_KEYS == DOMAIN AI_BACKENDS

EnvKeys == {AI_BACKENDS[b].envKey : b \in AI_BACKEND_KEYS}

\* ------------------------------------------------------------------------
\* JSON texts as token sequences, and JSON.parse
\* ------------------------------------------------------------------------

\* the token of a triple-backtick code fence
Fence == "<fence>"

Ws == {" ", "\n"}

\* the scalar literals of the modelled JSON fragment
Atoms == {"0", "1", "false", "true", "null", "\"\"", "\"a\""}

StrAtoms == {"\"\"", "\"a\""}

\* a text without its whitespace tokens
StripWs(s) == SelectSeq(s, LAMBDA t : t \notin Ws)

RECURSIVE ParseValue(_, _), ParseArrRest(_, _), ParseObjRest(_, _)

\* index just after the JSON value that starts at s[i], 0 if there is none
ParseValue(s, i) ==
  IF i = 0 \/ i > Len(s) THEN 0
  ELSE IF s[i] \in Atoms THEN i + 1
  ELSE IF s[i] = "[" THEN
    IF i + 1 <= Len(s) /\ s[i + 1] = "]" THEN i + 2
    ELSE ParseArrRest(s, ParseValue(s, i + 1))
  ELSE IF s[i] = "{" THEN
    IF i + 1 <= Len(s) /\ s[i + 1] = "}" THEN i + 2
    ELSE IF i + 2 <= Len(s) /\ s[i + 1] \in StrAtoms /\ s[i + 2] = ":"
         THEN ParseObjRest(s, ParseValue(s, i + 3))
         ELSE 0
  ELSE 0

\* after an array element ending before j: "," value ... "]"
ParseArrRest(s, j) ==
  IF j = 0 \/ j > Len(s) THEN 0
  ELSE IF s[j] = "]" THEN j + 1
  ELSE IF s[j] = "," THEN ParseArrRest(s, ParseValue(s, j + 1))
  ELSE 0

\* after an object member ending before j: "," key ":" value ... "}"
ParseObjRest(s, j) ==
  IF j = 0 \/ j > Len(s) THEN 0
  ELSE IF s[j] = "}" THEN j + 1
  ELSE IF s[j] = "," THEN
    IF j + 2 <= Len(s) /\ s[j + 1] \in StrAtoms /\ s[j + 2] = ":"
    THEN ParseObjRest(s, ParseValue(s, j + 3))
    ELSE 0
  ELSE 0

\* JSON.parse throws
ParseError == << >>

\* JSON.parse(text): the value, written canonically (no whitespace), or
\* ParseError when the text is not exactly one JSON value
JSONparse(text) ==
  LET s == StripWs(text)
  IN  IF Len(s) > 0 /\ ParseValue(s, 1) = Len(s) + 1 THEN s ELSE ParseError

\* the JavaScript null, which is also what JSON.parse("null") returns
JsNull == <<"null">>

\* JavaScript truthiness of a parsed JSON value
Truthy(v) == v \notin {JsNull, <<"false">>, <<"0">>, <<"\"\"">>}

\* positions of a token in a text
Positions(text, tok) == {i \in 1..Len(text) : text[i] = tok}

Min(S) == CHOOSE x \in S : \A y \in S : x <= y

Max(S) == CHOOSE x \in S : \A y \in S : x >= y

\* the group captured by the fence regular expression: what lies between
\* the first fence (and an optional "json" tag) and the next fence; << >>
\* when there is no match
FenceInterior(text) ==
  LET F == Positions(text, Fence)
  IN  IF Cardinality(F) < 2 THEN << >>
      ELSE LET i == Min(F)
               j == Min(F \ {i})
               a == IF i + 1 < j /\ text[i + 1] = "json" THEN i + 2 ELSE i + 1
           IN  SubSeq(text, a, j - 1)

HasFence(text) == Cardinality(Positions(text, Fence)) >= 2

\* the greedy brace / bracket regular expressions: from the first opening
\* token to the last closing token after it; << >> when there is no match
Span(text, open, close) ==
  LET O == Positions(text, open)
      C == Positions(text, close)
  IN  IF O = {} \/ C = {} \/ Max(C) < Min(O) THEN << >>
      ELSE SubSeq(text, Min(O), Max(C))

\* variant: the brace span is tried before the code fence
extractJSON_BraceFirst(text) ==
  IF JSONparse(text) # ParseError THEN JSONparse(text)
  ELSE IF JSONparse(Span(text, "{", "}")) # ParseError
       THEN JSONparse(Span(text, "{", "}"))
  ELSE IF HasFence(text) /\ JSONparse(FenceInterior(text)) # ParseError
       THEN JSONparse(FenceInterior(text))
  ELSE IF JSONparse(Span(text, "[", "]")) # ParseError
       THEN JSONparse(Span(text, "[", "]"))
  ELSE JsNull

\* extractJSON: the whole text, the interior of the first code fence, the
\* brace span, the bracket span, in this order; null when none parses
extractJSON(text) ==
  IF JSONparse(text) # ParseError THEN JSONparse(text)
  ELSE IF HasFence(text) /\ JSONparse(FenceInterior(text)) # ParseError
       THEN JSONparse(FenceInterior(text))
  ELSE IF JSONparse(Span(text, "{", "}")) # ParseError
       THEN JSONparse(Span(text, "{", "}"))
  ELSE IF JSONparse(Span(text, "[", "]")) # ParseError
       THEN JSONparse(Span(text, "[", "]"))
  ELSE JsNull

\* ------------------------------------------------------------------------
\* HTTP helper and coordination client
\* ------------------------------------------------------------------------

\* the server the process talks to, from the CLANKERBLOX_SERVER variable
\* and the --server flag (Null when not given)
SERVER_URL(envServer, flagServer) ==
  IF TruthyStr(envServer) THEN envServer
  ELSE IF TruthyStr(flagServer) THEN flagServer
  ELSE DEFAULT_SERVER

Digit(d) == SubSeq("0123456789", d + 1, d + 1)

RECURSIVE ToStr(_)

\* template-literal formatting of a non-negative integer
ToStr(n) == IF n < 10 THEN Digit(n) ELSE ToStr(n \div 10) \o Digit(n % 10)

\* String.prototype.includes
Includes(str, sub) ==
  \E i \in 1..(Len(str) - Len(sub) + 1) : SubSeq(str, i, i + Len(sub) - 1) = sub

\* resp.ok
RespOk(status) == status >= 200 /\ status <= 299

WorkEndpoint(agent_id) == "/api/agents/" \o agent_id \o "/work"

SubmitEndpoint == "/api/agents/submit"

RegisterEndpoint == "/api/agents/register"

\* the message of the error apiRequest throws on a non-ok response
ApiErrMsg(method, endpoint, status, errBody) ==
  "API " \o method \o " " \o endpoint \o " failed (" \o ToStr(status) \o "): " \o errBody

\* a parsed response body the worker loop looks at: nothing (empty text), a
\* plain string, or an object with (or without) task_id and a prompt
NoBody == [kind |-> "empty", task_id |-> Null, promptKind |-> "none"]

\* apiRequest: how the response r = [net, reason, status, errBody, body]
\* comes back to the caller: thrown (with the message) or returned
apiRequest(method, endpoint, r) ==
  IF r.net THEN [thrown |-> TRUE, msg |-> r.reason, value |-> NoBody]
  ELSE IF ~RespOk(r.status)
       THEN [thrown |-> TRUE,
             msg |-> ApiErrMsg(method, endpoint, r.status, r.errBody),
             value |-> NoBody]
       ELSE [thrown |-> FALSE, msg |-> "", value |-> r.body]

\* the substring test of fetchWork's catch
LooksLikeNoWork(msg) == Includes(msg, "404") \/ Includes(msg, "204")

\* fetchWork: null for "no work", the body otherwise, or the error rethrown
fetchWork(agent_id, r) ==
  LET res == apiRequest("GET", WorkEndpoint(agent_id), r)
  IN  IF res.thrown /\ LooksLikeNoWork(res.msg)
      THEN [thrown |-> FALSE, msg |-> "", value |-> NoBody]
      ELSE res

\* submitResult: rethrows what apiRequest throws
\* variant: a failed POST of the result is logged and not thrown again
submitResult_NoThrow(r) ==
  [apiRequest("POST", SubmitEndpoint, r) EXCEPT !.thrown = FALSE]

submitResult(r) == apiRequest("POST", SubmitEndpoint, r)

\* the coordinator answered the request with a 2xx status
Acknowledged(r) == ~r.net /\ RespOk(r.status)

\* the loop's test "work && work.task_id"
\* variant: every object counts as a work item
HasTask_AnyObject(body) == body.kind = "object"

\* the loop's test "work && work.task_id"
HasTask(body) == body.kind = "object" /\ TruthyStr(body.task_id)

\* ------------------------------------------------------------------------
\* processWithAI
\* ------------------------------------------------------------------------

\* what processWithAI returns: null, the parsed value, or {_raw_text: text}
NullResult == [kind |-> "null", val |-> << >>]

\* the credential used for the provider call (Null or "" when there is none)
ApiKeyFor(cfg, environ) ==
  IF TruthyStr(cfg.ai_api_key) THEN cfg.ai_api_key
  ELSE environ[AI_BACKENDS[cfg.model].envKey]

\* variant: the credential test is missing
ProcessStart_NoKeyCheck(cfg, environ) ==
  IF cfg.role \notin ROLE_PROMPTS THEN "null"
  ELSE IF cfg.model = "openclaw" THEN "openclaw"
  ELSE IF cfg.model = "none" \/ cfg.model \notin AI_BACKEND_KEYS THEN "null"
  ELSE "call"

\* variant: only "none" means no backend, any other identifier is called
ProcessStart_UnknownCalls(cfg, environ) ==
  IF cfg.role \notin ROLE_PROMPTS THEN "null"
  ELSE IF cfg.model = "openclaw" THEN "openclaw"
  ELSE IF cfg.model = "none" THEN "null"
  ELSE "call"

\* the part of processWithAI before its first await: "null" (returns null at
\* once), "openclaw" (emits the task and sleeps) or "call" (POSTs to the
\* provider)
ProcessStart(cfg, environ) ==
  IF cfg.role \notin ROLE_PROMPTS THEN "null"
  ELSE IF cfg.model = "openclaw" THEN "openclaw"
  ELSE IF cfg.model = "none" \/ cfg.model \notin AI_BACKEND_KEYS THEN "null"
  ELSE IF ~TruthyStr(ApiKeyFor(cfg, environ)) THEN "null"
  ELSE "call"

\* variant: no try / catch around the provider call, its failures propagate
ProcessFinish_NoCatch(r) ==
  IF r.net \/ ~RespOk(r.status) \/ ~r.jsonOk THEN [kind |-> "throw", val |-> << >>]
  ELSE IF r.text = << >> THEN NullResult
  ELSE IF ~Truthy(extractJSON(r.text)) THEN [kind |-> "raw", val |-> r.text]
  ELSE [kind |-> "json", val |-> extractJSON(r.text)]

\* variant: text without a JSON value is dropped instead of wrapped
ProcessFinish_DropsRaw(r) ==
  IF r.net \/ ~RespOk(r.status) \/ ~r.jsonOk THEN NullResult
  ELSE IF r.text = << >> THEN NullResult
  ELSE IF ~Truthy(extractJSON(r.text)) THEN NullResult
  ELSE [kind |-> "json", val |-> extractJSON(r.text)]

\* the part of processWithAI after the provider answered with
\* r = [net, status, jsonOk, text]
ProcessFinish(r) ==
  IF r.net \/ ~RespOk(r.status) \/ ~r.jsonOk THEN NullResult
  ELSE IF r.text = << >> THEN NullResult
  ELSE IF ~Truthy(extractJSON(r.text)) THEN [kind |-> "raw", val |-> r.text]
  ELSE [kind |-> "json", val |-> extractJSON(r.text)]

\* the hint the loop appends to its warning when there is no result
NoResultHint(cfg) ==
  IF cfg.model = "none" THEN "Configure an AI backend to auto-process tasks."
  ELSE "Check AI backend configuration."

\* variant: the loop submits whatever processWithAI returned
HasResult_Always(res) == TRUE

\* the loop's test "if (result)"
HasResult(res) == res.kind # "null"

\* ------------------------------------------------------------------------
\* State
\* ------------------------------------------------------------------------

VARIABLES
  pc,                 \* where the single thread is suspended
  exitCode,           \* -1 while the process runs, else its exit status
  argv,               \* the command-line flags
  env,                \* the environment variables
  file,               \* the identity file at CONFIG_PATH
  config,             \* the in-memory identity
  consecutiveErrors,  \* workerLoop's local counter
  held,               \* the work items the loop holds
  out,                \* requests issued and not yet settled, per kind
  faults,             \* failures thrown into the loop's catch so far
  faultBudget,        \* how many of them the environment produces in this run
  ackBudget,          \* how many submissions the coordinator acknowledges in it
  acks,               \* submissions the coordinator acknowledged so far
  diskFaults,         \* failed writes of the identity file so far
  setupSaved,         \* how the save at the end of setup went
  setup,              \* what setup did: registrations sent, their outcome,
                      \* and whether workerLoop was entered
  printed,            \* the final stats handleShutdown printed
  cyc,                \* what happened in the current (or last) cycle
  win,                \* the current run of consecutive failed cycles
  call                \* a function applied on its own: its name, argument
                      \* and return value

vars == << pc, exitCode, argv, env, file, config, consecutiveErrors, held,
           out, faults, faultBudget, ackBudget, acks, diskFaults, setupSaved,
           setup, printed, cyc, win, call >>

ZeroStats == [completed |-> 0, points |-> 0, errors |-> 0]

\* no identity (loadConfig returned null, setup not done)
NoIdentity ==
  [ name |-> Null, role |-> Null, model |-> Null, ai_api_key |-> Null,
    agent_id |-> Null, api_key |-> Null, stats |-> ZeroStats ]

NoFlags == [name |-> Null, role |-> Null, model |-> Null, apiKey |-> Null]

NoRequests == [fetch |-> 0, provider |-> 0, submit |-> 0, register |-> 0]

\* before main ran: nothing registered, no worker id and credential obtained
\* (outcome: "loaded", "ok" or "rejected" later), workerLoop not entered;
\* model and ai_api_key are the backend selection of the identity as loaded
\* or as registered
\* stats0 are the stats workerLoop was entered with
NoSetup ==
  [ registrations |-> 0, outcome |-> "none", loopStarted |-> FALSE,
    agent_id |-> Null, api_key |-> Null, model |-> Null, ai_api_key |-> Null,
    stats0 |-> ZeroStats ]

\* no function is applied on its own
NoCall == [fn |-> "none", arg |-> Null, span |-> << >>, ret |-> Null, done |-> FALSE]

\* handleShutdown printed no stats (yet)
NothingPrinted == [shown |-> FALSE, completed |-> 0, points |-> 0]

\* the record of a cycle that starts with counter ce and stats st
NewCycle(ce, st) ==
  [ ce0 |-> ce, stats0 |-> st, fetched |-> "pending", status |-> 0, tid |-> Null,
    provider |-> 0, emitted |-> FALSE, pres |-> "none", text |-> << >>,
    submits |-> 0, submitted |-> [kind |-> "null", val |-> << >>],
    sres |-> "none", saved |-> "none", threw |-> "none", failed |-> FALSE,
    backoff |-> FALSE ]

\* a run of failed cycles that starts with counter ce and error stat e
\* (listed: every failure so far was one of a fetch, a submission or a save)
NewWindow(ce, e) ==
  [len |-> 0, start0 |-> (ce = 0), errs0 |-> e, backoffs |-> 0, listed |-> TRUE]

\* ------------------------------------------------------------------------
\* Inputs
\* ------------------------------------------------------------------------

AgentIds == {"agent-1", "bot-4047"}

TaskIds == {"t1", "t2"}

Statuses == {200, 204, 401, 404, 500}

ErrBodies == {"", "Internal Server Error", "{\"detail\":\"shard 2041 busy\"}"}

\* messages of the error a rejected fetch() carries
NetReasons == {"fetch failed", "connect ECONNREFUSED 57.129.44.62:8000"}

\* bodies of a successful work response
WorkBodies ==
  { NoBody, [kind |-> "text", task_id |-> Null, promptKind |-> "none"],
    [kind |-> "null", task_id |-> Null, promptKind |-> "none"],
    [kind |-> "array", task_id |-> Null, promptKind |-> "none"] }
  \cup { [kind |-> "object", task_id |-> t, promptKind |-> k] :
           t \in TaskIds \cup {Null}, k \in {"string", "number"} }

\* answers to a coordination request
CoordResponses ==
  { [net |-> TRUE, reason |-> m, status |-> 0, errBody |-> "", body |-> NoBody] :
      m \in NetReasons }
  \cup { [net |-> FALSE, reason |-> "", status |-> s, errBody |-> b, body |-> NoBody] :
           s \in {x \in Statuses : ~RespOk(x)}, b \in ErrBodies }
  \cup { [net |-> FALSE, reason |-> "", status |-> 200, errBody |-> "", body |-> w] :
           w \in WorkBodies }
  \cup { [net |-> FALSE, reason |-> "", status |-> 204, errBody |-> "", body |-> NoBody] }

\* texts a model produces
AITexts ==
  { <<"{", "\"a\"", ":", "1", "}">>,
    <<"Sure", "!", " ", Fence, "json", "\n", "{", "\"a\"", ":", "1", "}", "\n", Fence>>,
    <<"not", " ", "json", " ", "at", " ", "all">>,
    <<"0">> }

\* answers of a provider
ProviderResponses ==
  { [net |-> TRUE, status |-> 0, jsonOk |-> FALSE, text |-> << >>] }
  \cup { [net |-> FALSE, status |-> s, jsonOk |-> FALSE, text |-> << >>] :
           s \in {429, 500} }
  \cup { [net |-> FALSE, status |-> 200, jsonOk |-> FALSE, text |-> << >>] }
  \cup { [net |-> FALSE, status |-> 200, jsonOk |-> TRUE, text |-> t] :
           t \in AITexts \cup {<< >>} }

\* classes of provider answers, as processWithAI tells them apart
ProviderClass(r) ==
  IF r.net THEN "neterr"
  ELSE IF ~RespOk(r.status) THEN "httperr"
  ELSE IF ~r.jsonOk THEN "badjson"
  ELSE IF r.text = << >> THEN "empty"
  ELSE "text"

\* ------------------------------------------------------------------------
\* Launch: flags, environment, identity file
\* ------------------------------------------------------------------------

Models == AI_BACKEND_KEYS \cup {"none", "openclaw", "llama"}

OpenClawKeys == {"OPENCLAW", "OPENCLAW_MODEL", "OPENCLAW_SESSION"}

Envs ==
  { [k \in EnvKeys \cup OpenClawKeys |-> Null],
    [k \in EnvKeys \cup OpenClawKeys |-> IF k \in EnvKeys THEN "env-key" ELSE Null],
    [k \in EnvKeys \cup OpenClawKeys |-> IF k = "OPENCLAW" THEN "1" ELSE Null] }

isRunningInOpenClaw(environ) ==
  \/ environ["OPENCLAW"] = "1"
  \/ TruthyStr(environ["OPENCLAW_MODEL"])
  \/ TruthyStr(environ["OPENCLAW_SESSION"])

EnvNone == [k \in EnvKeys \cup OpenClawKeys |-> Null]

EnvWithKeys ==
  [k \in EnvKeys \cup OpenClawKeys |-> IF k \in EnvKeys THEN "env-key" ELSE Null]

Flags(role, model, key) ==
  [name |-> "TrendBot", role |-> role, model |-> model, apiKey |-> key]

Stored(model, key, agent) ==
  [ name |-> "TrendBot", role |-> "script_writer", model |-> model,
    ai_api_key |-> key, agent_id |-> agent, api_key |-> "key-1",
    stats |-> [completed |-> 1, points |-> ROLES["script_writer"], errors |-> 0] ]

\* JSON.stringify of a string or null
StrToJSON(v) == IF v = Null THEN "null" ELSE "\"" \o v \o "\""

\* JSON.parse of the text of a string or null
StrFromJSON(t) == IF t = "null" THEN Null ELSE SubSeq(t, 2, Len(t) - 1)

\* JSON.parse of the text of a non-negative integer
RECURSIVE NumFromJSON(_)

NumFromJSON(t) ==
  LET d == CHOOSE k \in 0..9 : Digit(k) = SubSeq(t, Len(t), Len(t))
  IN  IF Len(t) = 1 THEN d ELSE 10 * NumFromJSON(SubSeq(t, 1, Len(t) - 1)) + d

\* variant: the nested stats object is not serialised
JSONstringify_Shallow(cfg) ==
  [ name |-> StrToJSON(cfg.name), role |-> StrToJSON(cfg.role),
    model |-> StrToJSON(cfg.model), ai_api_key |-> StrToJSON(cfg.ai_api_key),
    agent_id |-> StrToJSON(cfg.agent_id), api_key |-> StrToJSON(cfg.api_key),
    stats |-> [completed |-> "0", points |-> "0", errors |-> "0"] ]

\* JSON.stringify(config, null, 2): the document, as the JSON text of
\* each member
JSONstringify(cfg) ==
  [ name |-> StrToJSON(cfg.name), role |-> StrToJSON(cfg.role),
    model |-> StrToJSON(cfg.model), ai_api_key |-> StrToJSON(cfg.ai_api_key),
    agent_id |-> StrToJSON(cfg.agent_id), api_key |-> StrToJSON(cfg.api_key),
    stats |-> [ completed |-> ToStr(cfg.stats.completed),
                points |-> ToStr(cfg.stats.points),
                errors |-> ToStr(cfg.stats.errors) ] ]

\* JSON.parse(data) of a document JSON.stringify wrote
JSONparseConfig(doc) ==
  [ name |-> StrFromJSON(doc.name), role |-> StrFromJSON(doc.role),
    model |-> StrFromJSON(doc.model), ai_api_key |-> StrFromJSON(doc.ai_api_key),
    agent_id |-> StrFromJSON(doc.agent_id), api_key |-> StrFromJSON(doc.api_key),
    stats |-> [ completed |-> NumFromJSON(doc.stats.completed),
                points |-> NumFromJSON(doc.stats.points),
                errors |-> NumFromJSON(doc.stats.errors) ] ]

\* saveConfig writes the whole identity, serialised
Written(cfg) == [state |-> "ok", data |-> JSONstringify(cfg)]

OverrideClaude == [name |-> Null, role |-> Null, model |-> "claude", apiKey |-> "flag-key"]

OverrideLlama == [name |-> Null, role |-> Null, model |-> "llama", apiKey |-> Null]

NoFile == [state |-> "absent", data |-> ""]

CorruptFile == [state |-> "corrupt", data |-> "{"]

\* the file exists and cannot be read
UnreadableFile == [state |-> "unreadable", data |-> ""]

\* variant: the stored identity is not used
loadConfig_Forgets(f) == [thrown |-> FALSE, value |-> NoIdentity]

\* variant: no try / catch in loadConfig, a failed read or parse propagates
loadConfig_NoCatch(f) ==
  [ thrown |-> f.state \in {"unreadable", "corrupt"},
    value  |-> IF f.state = "ok" THEN JSONparseConfig(f.data) ELSE NoIdentity ]

\* loadConfig: the parsed identity, or NoIdentity (null) for a missing,
\* unreadable or unparseable file; it never throws
loadConfig(f) ==
  [ thrown |-> FALSE,
    value  |-> IF f.state = "ok" THEN JSONparseConfig(f.data) ELSE NoIdentity ]

\* variant: the role is taken from the flag as it is
cliSetupConfig_KeepsRole(flags, environ) ==
  LET model == IF TruthyStr(flags.model) THEN flags.model ELSE "none"
      key   == IF TruthyStr(flags.apiKey) THEN flags.apiKey
               ELSE IF model \in AI_BACKEND_KEYS /\ TruthyStr(environ[AI_BACKENDS[model].envKey])
                    THEN environ[AI_BACKENDS[model].envKey]
                    ELSE Null
  IN  [ name |-> IF TruthyStr(flags.name) THEN flags.name ELSE "Agent-1234",
        role |-> flags.role, model |-> model, ai_api_key |-> key,
        agent_id |-> Null, api_key |-> Null, stats |-> ZeroStats ]

\* the identity cliSetup builds from the flags before registering
cliSetupConfig(flags, environ) ==
  LET model == IF TruthyStr(flags.model) THEN flags.model ELSE "none"
      role  == IF TruthyStr(flags.role) /\ flags.role \in ROLE_KEYS
               THEN flags.role ELSE "trend_researcher"
      key   == IF TruthyStr(flags.apiKey) THEN flags.apiKey
               ELSE IF model \in AI_BACKEND_KEYS /\ TruthyStr(environ[AI_BACKENDS[model].envKey])
                    THEN environ[AI_BACKENDS[model].envKey]
                    ELSE Null
  IN  [ name |-> IF TruthyStr(flags.name) THEN flags.name ELSE "Agent-1234",
        role |-> role, model |-> model, ai_api_key |-> key,
        agent_id |-> Null, api_key |-> Null, stats |-> ZeroStats ]

\* the identity interactiveSetup builds from the operator's answers
interactiveSetupConfig(ans, environ) ==
  LET key == IF ans.model \in AI_BACKEND_KEYS
             THEN IF TruthyStr(environ[AI_BACKENDS[ans.model].envKey])
                  THEN environ[AI_BACKENDS[ans.model].envKey]
                  ELSE IF TruthyStr(ans.apiKey) THEN ans.apiKey ELSE Null
             ELSE Null
  IN  [ name |-> IF TruthyStr(ans.name) THEN ans.name ELSE "Agent-1234",
        role |-> IF ans.role \in ROLE_KEYS THEN ans.role ELSE "trend_researcher",
        model |-> IF isRunningInOpenClaw(environ) THEN "openclaw"
                  ELSE IF ans.model \in AI_BACKEND_KEYS THEN ans.model ELSE "none",
        ai_api_key |-> IF isRunningInOpenClaw(environ) THEN Null ELSE key,
        agent_id |-> Null, api_key |-> Null, stats |-> ZeroStats ]

Answers ==
  { [name |-> "", role |-> "theme_designer", model |-> "deepseek", apiKey |-> "typed-key"],
    [name |-> "TrendBot", role |-> "0", model |-> "5", apiKey |-> ""] }

\* variant: the --api-key flag lands in the access credential
applyOverrides_Clobbers(cfg, flags) ==
  LET m == IF TruthyStr(flags.model) /\ flags.model \in AI_BACKEND_KEYS
           THEN flags.model ELSE cfg.model
      k == IF TruthyStr(flags.apiKey) THEN flags.apiKey ELSE cfg.api_key
  IN  [cfg EXCEPT !.model = m, !.api_key = k]

\* main's overrides of a loaded identity
applyOverrides(cfg, flags) ==
  LET m == IF TruthyStr(flags.model) /\ flags.model \in AI_BACKEND_KEYS
           THEN flags.model ELSE cfg.model
      k == IF TruthyStr(flags.apiKey) THEN flags.apiKey ELSE cfg.ai_api_key
  IN  [cfg EXCEPT !.model = m, !.ai_api_key = k]

RegisterResponses ==
  { [net |-> TRUE, status |-> 0, agent_id |-> Null, api_key |-> Null],
    [net |-> FALSE, status |-> 500, agent_id |-> Null, api_key |-> Null] }
  \cup { [net |-> FALSE, status |-> 200, agent_id |-> "agent-1", api_key |-> "key-1"],
         [net |-> FALSE, status |-> 200, agent_id |-> "bot-4047", api_key |-> Null],
         [net |-> FALSE, status |-> 200, agent_id |-> Null, api_key |-> "key-1"] }

\* variant: the response is not tested for an agent_id
registerOk_NoIdCheck(r) == ~r.net /\ RespOk(r.status)

\* registerAgent succeeds only with an agent_id in an ok response
registerOk(r) == ~r.net /\ RespOk(r.status) /\ TruthyStr(r.agent_id)

\* launches without an identity file (or with an unreadable one) and with
\* the flags of the non-interactive setup
CliLaunches ==
  { [file |-> NoFile, argv |-> Flags("trend_researcher", m, Null), env |-> EnvNone] :
      m \in AI_BACKEND_KEYS \cup {"none", "openclaw", "llama", Null} }
  \cup { [file |-> NoFile, argv |-> Flags("trend_researcher", "gemini", "flag-key"),
          env |-> e] : e \in {EnvNone, EnvWithKeys} }
  \cup { [file |-> NoFile, argv |-> Flags("trend_researcher", "gemini", Null),
          env |-> EnvWithKeys],
         [file |-> NoFile, argv |-> Flags("quality_reviewer", "gpt4o", "flag-key"),
          env |-> EnvNone],
         [file |-> NoFile, argv |-> Flags("wizard", "gemini", "flag-key"), env |-> EnvNone],
         [file |-> CorruptFile, argv |-> Flags("theme_designer", "claude", Null),
          env |-> EnvWithKeys],
         [file |-> UnreadableFile, argv |-> Flags("trend_researcher", "none", Null),
          env |-> EnvWithKeys] }

\* launches that go through the interactive setup
InteractiveLaunches ==
  { [file |-> NoFile, argv |-> NoFlags, env |-> e] : e \in Envs }

\* the launch whose run explores long streaks of failures
BackoffLaunch ==
  [file |-> Written(Stored("gemini", "stored-key", "agent-1")), argv |-> NoFlags, env |-> EnvNone]

\* launches with an identity file
LoadedLaunches ==
  { BackoffLaunch,
    [file |-> Written(Stored("gemini", Null, "bot-4047")), argv |-> NoFlags, env |-> EnvNone],
    [file |-> Written(Stored("gemini", Null, "bot-4047")), argv |-> NoFlags, env |-> EnvWithKeys],
    [file |-> Written(Stored("none", Null, "agent-1")), argv |-> OverrideClaude, env |-> EnvNone],
    [file |-> Written(Stored("deepseek", "stored-key", "bot-4047")), argv |-> OverrideLlama,
     env |-> EnvNone],
    [file |-> Written([Stored("none", Null, "agent-1") EXCEPT !.role = "wizard"]),
     argv |-> NoFlags, env |-> EnvNone] }

Launches == CliLaunches \cup InteractiveLaunches \cup LoadedLaunches

\* a run: a launch, and what the world around the process does during it
Run(l, f, a) == [launch |-> l, faultBudget |-> f, ackBudget |-> a]

Runs ==
  { Run(l, MaxFaults, MaxAcks) : l \in Launches \ {BackoffLaunch} }
  \cup { Run(BackoffLaunch, MaxStreak, MaxAcks), Run(BackoffLaunch, MaxStreak, 0) }

\* the state after the process started and before main ran
InitRun(r) ==
  /\ pc = "main"
  /\ exitCode = -1
  /\ file = r.launch.file
  /\ argv = r.launch.argv
  /\ env = r.launch.env
  /\ faultBudget = r.faultBudget
  /\ ackBudget = r.ackBudget
  /\ config = NoIdentity
  /\ consecutiveErrors = 0
  /\ held = {}
  /\ out = NoRequests
  /\ faults = 0
  /\ acks = 0
  /\ diskFaults = 0
  /\ setupSaved = "none"
  /\ setup = NoSetup
  /\ printed = NothingPrinted
  /\ cyc = NewCycle(0, ZeroStats)
  /\ win = NewWindow(0, 0)
  /\ call = NoCall

Init == \E r \in Runs : InitRun(r)

\* ------------------------------------------------------------------------
\* Steps shared by the actions
\* ------------------------------------------------------------------------

Issue(o, kind) == [o EXCEPT ![kind] = @ + 1]

Settle(o, kind) == [o EXCEPT ![kind] = @ - 1]

\* variant: the catch block does not count the error in the stats
CatchStep_NoErrorStat(ce, st) ==
  [ce |-> ce + 1, stats |-> st, backoff |-> ce + 1 >= MAX_CONSECUTIVE_ERRORS]

\* variant: the backoff resets the error stat along with the counter
CatchStep_ResetsStat(ce, st) ==
  [ ce      |-> ce + 1,
    stats   |-> IF ce + 1 >= MAX_CONSECUTIVE_ERRORS
                THEN [st EXCEPT !.errors = 0] ELSE [st EXCEPT !.errors = @ + 1],
    backoff |-> ce + 1 >= MAX_CONSECUTIVE_ERRORS ]

\* the catch block of workerLoop: both counters grow, and the threshold
\* decides on the backoff sleep
\* variant: the backoff starts one failure late
CatchStep_LateBackoff(ce, st) ==
  [ ce      |-> ce + 1,
    stats   |-> [st EXCEPT !.errors = @ + 1],
    backoff |-> ce + 1 > MAX_CONSECUTIVE_ERRORS ]

CatchStep(ce, st) ==
  [ ce      |-> ce + 1,
    stats   |-> [st EXCEPT !.errors = @ + 1],
    backoff |-> ce + 1 >= MAX_CONSECUTIVE_ERRORS ]

\* variant: receiving a work item leaves the counter alone
ResetOnWork_Keeps(ce) == ce

\* the counter after a work item was received
ResetOnWork(ce) == 0

\* variant: the branch without work leaves the counter alone
ResetOnNoWork_Keeps(ce) == ce

\* the counter after a fetch that brought no work
ResetOnNoWork(ce) == 0

\* variant: the points are not awarded
Reward_NoPoints(st, role) == [st EXCEPT !.completed = @ + 1]

\* the stats after an acknowledged submission
\* variant: every completion earns one point, whatever the role
Reward_FlatPoints(st, role) ==
  [st EXCEPT !.completed = @ + 1, !.points = @ + 1]

Reward(st, role) ==
  [st EXCEPT !.completed = @ + 1, !.points = @ + ROLES[role]]

\* variant: the failure is not caught and ends the process
Thrown_Escapes(ce, cfg, c) ==
  /\ pc' = "exited" /\ exitCode' = 1
  /\ config' = cfg
  /\ cyc' = [c EXCEPT !.failed = TRUE]
  /\ held' = {}
  /\ faults' = faults + 1
  /\ UNCHANGED << consecutiveErrors, win >>

\* the loop's thread is inside the try block and a failure is thrown with
\* counter ce and identity cfg: run the catch block and go to sleep
Thrown(ce, cfg, c) ==
  LET k == CatchStep(ce, cfg.stats)
  IN  /\ consecutiveErrors' = k.ce
      /\ config' = [cfg EXCEPT !.stats = k.stats]
      /\ pc' = IF k.backoff THEN "backoff" ELSE "sleep"
      /\ cyc' = [c EXCEPT !.failed = TRUE, !.backoff = k.backoff]
      /\ win' = [win EXCEPT !.len = @ + 1,
                            !.backoffs = @ + (IF k.backoff THEN 1 ELSE 0),
                            !.listed = @ /\ c.threw \in {"fetch", "submit", "save"}]
      /\ held' = {}
      /\ faults' = faults + 1
      /\ exitCode' = exitCode

\* workerLoop up to its first fetch: roleInfo.label throws for a role that
\* is not in ROLES, and main exits with status 1
EnterLoop(cfg, o, su) ==
  IF cfg.role \notin ROLE_KEYS
  THEN /\ pc' = "exited" /\ exitCode' = 1 /\ out' = o
       /\ setup' = su
       /\ UNCHANGED << consecutiveErrors, cyc, win >>
  ELSE /\ pc' = "fetching" /\ exitCode' = -1
       /\ setup' = [su EXCEPT !.loopStarted = TRUE, !.stats0 = cfg.stats]
       /\ consecutiveErrors' = 0
       /\ out' = Issue(o, "fetch")
       /\ cyc' = NewCycle(0, cfg.stats)
       /\ win' = NewWindow(0, cfg.stats.errors)

\* ------------------------------------------------------------------------
\* main and setup
\* ------------------------------------------------------------------------

\* main with an identity file: load, apply the overrides, start the loop
\* (anything loadConfig threw would end the process through main().catch)
MainLoaded ==
  /\ pc = "main"
  /\ UNCHANGED call
  /\ loadConfig(file).thrown \/ loadConfig(file).value # NoIdentity
  /\ IF loadConfig(file).thrown
     THEN /\ pc' = "exited" /\ exitCode' = 1
          /\ UNCHANGED << config, out, setup, consecutiveErrors, cyc, win >>
     ELSE LET loaded == loadConfig(file).value
          IN  /\ config' = applyOverrides(loaded, argv)
              /\ EnterLoop(applyOverrides(loaded, argv), out,
                           [setup EXCEPT !.outcome = "loaded",
                                         !.agent_id = loaded.agent_id,
                                         !.api_key = loaded.api_key,
                                         !.model = loaded.model,
                                         !.ai_api_key = loaded.ai_api_key])
  /\ UNCHANGED << argv, env, file, held, faults, faultBudget, ackBudget, acks,
                  diskFaults, setupSaved, printed >>

\* main without one, --name and --role given: cliSetup sends the registration
MainCliSetup ==
  /\ pc = "main"
  /\ UNCHANGED call
  /\ ~loadConfig(file).thrown /\ loadConfig(file).value = NoIdentity
  /\ TruthyStr(argv.name) /\ TruthyStr(argv.role)
  /\ config' = cliSetupConfig(argv, env)
  /\ pc' = "registering"
  /\ out' = Issue(out, "register")
  /\ setup' = [setup EXCEPT !.registrations = @ + 1]
  /\ UNCHANGED << exitCode, argv, env, file, consecutiveErrors, held, faults,
                  faultBudget, ackBudget, acks, diskFaults, setupSaved, printed,
                  cyc, win >>

\* main without one and without the two flags: interactiveSetup asks the
\* operator and sends the registration
MainInteractiveSetup ==
  /\ pc = "main"
  /\ UNCHANGED call
  /\ ~loadConfig(file).thrown /\ loadConfig(file).value = NoIdentity
  /\ ~(TruthyStr(argv.name) /\ TruthyStr(argv.role))
  /\ \E ans \in Answers : config' = interactiveSetupConfig(ans, env)
  /\ pc' = "registering"
  /\ out' = Issue(out, "register")
  /\ setup' = [setup EXCEPT !.registrations = @ + 1]
  /\ UNCHANGED << exitCode, argv, env, file, consecutiveErrors, held, faults,
                  faultBudget, ackBudget, acks, diskFaults, setupSaved, printed,
                  cyc, win >>

\* variant: the access credential of the response is not kept
fullConfig_DropsKey(cfg, r) ==
  [cfg EXCEPT !.agent_id = r.agent_id, !.stats = ZeroStats]

\* the identity setup completes from the registration response r
fullConfig(cfg, r) ==
  [cfg EXCEPT !.agent_id = r.agent_id, !.api_key = r.api_key, !.stats = ZeroStats]

\* the registration is answered: a rejection ends the process; otherwise
\* the identity is completed and saved, and a failed save ends the process
RegisterDone ==
  /\ pc = "registering"
  /\ UNCHANGED call
  /\ \E r \in RegisterResponses, diskOk \in BOOLEAN :
       /\ diskOk \/ (registerOk(r) /\ diskFaults < MaxDiskFaults)
       /\ IF ~registerOk(r)
          THEN /\ pc' = "exited" /\ exitCode' = 1
               /\ out' = Settle(out, "register")
               /\ setup' = [setup EXCEPT !.outcome = "rejected"]
               /\ UNCHANGED << config, file, diskFaults, setupSaved, consecutiveErrors, cyc, win >>
          ELSE LET full == fullConfig(config, r)
                   su   == [setup EXCEPT !.outcome = "ok",
                                         !.agent_id = r.agent_id,
                                         !.api_key = r.api_key,
                                         !.model = config.model,
                                         !.ai_api_key = config.ai_api_key]
               IN  /\ config' = full
                   /\ IF diskOk
                      THEN /\ file' = Written(full)
                           /\ diskFaults' = diskFaults
                           /\ setupSaved' = "ok"
                           /\ EnterLoop(full, Settle(out, "register"), su)
                      ELSE /\ pc' = "exited" /\ exitCode' = 1
                           /\ diskFaults' = diskFaults + 1
                           /\ setupSaved' = "fail"
                           /\ setup' = su
                           /\ out' = Settle(out, "register")
                           /\ UNCHANGED << file, consecutiveErrors, cyc, win >>
  /\ UNCHANGED << argv, env, held, faults, faultBudget, ackBudget, acks, printed >>

\* ------------------------------------------------------------------------
\* The worker loop
\* ------------------------------------------------------------------------

\* a work answer on which the cycle throws: the fetch failed, or the item's
\* prompt is no string (taskPrompt.slice is not a function)
FetchThrows(res) ==
  res.thrown \/ (HasTask(res.value) /\ res.value.promptKind # "string")

\* the fetch is answered; the thread runs on through the work test and the
\* start of processWithAI, to the provider call, the OpenClaw wait, or the
\* end of the cycle
FetchDone ==
  /\ pc = "fetching"
  /\ UNCHANGED call
  /\ \E r \in CoordResponses :
       LET res == fetchWork(config.agent_id, r)
           c1  == [cyc EXCEPT !.fetched = IF res.thrown THEN "fail"
                                          ELSE IF HasTask(res.value) THEN "work"
                                          ELSE "nowork",
                              !.status = r.status,
                              !.tid = res.value.task_id,
                              !.threw = IF res.thrown THEN "fetch"
                                        ELSE IF FetchThrows(res) THEN "prompt"
                                        ELSE "none"]
       IN  /\ FetchThrows(res) => faults < faultBudget
           /\ HasTask(res.value) => acks < ackBudget
           /\ out' = IF ~res.thrown /\ HasTask(res.value)
                        /\ res.value.promptKind = "string"
                        /\ ProcessStart(config, env) = "call"
                     THEN Issue(Settle(out, "fetch"), "provider")
                     ELSE Settle(out, "fetch")
           /\ IF res.thrown
              THEN Thrown(consecutiveErrors, config, c1)
              ELSE IF ~HasTask(res.value)
              THEN /\ consecutiveErrors' = ResetOnNoWork(consecutiveErrors)
                   /\ pc' = "sleep"
                   /\ cyc' = c1
                   /\ UNCHANGED << exitCode, config, held, win, faults >>
              ELSE IF res.value.promptKind # "string"
              THEN Thrown(ResetOnWork(consecutiveErrors), config, c1)
              ELSE /\ consecutiveErrors' = ResetOnWork(consecutiveErrors)
                   /\ UNCHANGED << exitCode, config, win, faults >>
                   /\ CASE ProcessStart(config, env) = "call" ->
                             /\ pc' = "ai_wait"
                             /\ held' = {res.value.task_id}
                             /\ cyc' = [c1 EXCEPT !.provider = @ + 1]
                        [] ProcessStart(config, env) = "openclaw" ->
                             /\ pc' = "openclaw_wait"
                             /\ held' = {res.value.task_id}
                             /\ cyc' = [c1 EXCEPT !.emitted = TRUE]
                        [] OTHER ->
                             /\ pc' = "sleep"
                             /\ held' = {}
                             /\ cyc' = c1
  /\ UNCHANGED << argv, env, file, faultBudget, ackBudget, acks, diskFaults,
                  setupSaved, setup, printed >>

\* the two-second wait of OpenClaw mode is over: no result
\* variant: the host's answer is taken as the result and submitted
OpenClawDone_Submits ==
  /\ pc = "openclaw_wait"
  /\ UNCHANGED call
  /\ pc' = "submitting"
  /\ out' = Issue(out, "submit")
  /\ cyc' = [cyc EXCEPT !.submits = @ + 1,
                        !.submitted = [kind |-> "raw", val |-> <<"0">>]]
  /\ UNCHANGED << exitCode, argv, env, file, config, consecutiveErrors, held,
                  faults, faultBudget, ackBudget, acks, diskFaults, setupSaved,
                  setup, printed, win >>

\* variant: the cycle without a result saves the identity too
OpenClawDone_Saves ==
  /\ pc = "openclaw_wait"
  /\ UNCHANGED call
  /\ pc' = "sleep"
  /\ held' = {}
  /\ file' = Written(config)
  /\ UNCHANGED << exitCode, argv, env, config, consecutiveErrors, out,
                  faults, faultBudget, ackBudget, acks, diskFaults, setupSaved,
                  setup, printed, cyc, win >>

OpenClawDone ==
  /\ pc = "openclaw_wait"
  /\ UNCHANGED call
  /\ pc' = "sleep"
  /\ held' = {}
  /\ UNCHANGED << exitCode, argv, env, file, config, consecutiveErrors, out,
                  faults, faultBudget, ackBudget, acks, diskFaults, setupSaved,
                  setup, printed, cyc, win >>

\* variant: a failed provider call is sent again within the same cycle
ProviderDone_Retries ==
  /\ pc = "ai_wait"
  /\ UNCHANGED call
  /\ \E r \in ProviderResponses :
       /\ ProviderClass(r) \in {"neterr", "httperr"}
       /\ cyc' = [cyc EXCEPT !.pres = ProviderClass(r), !.provider = @ + 1]
  /\ UNCHANGED << pc, exitCode, argv, env, file, config, consecutiveErrors, held,
                  out, faults, faultBudget, ackBudget, acks, diskFaults, setupSaved,
                  setup, printed, win >>

\* the provider answered: processWithAI returns, and a result is submitted
\* (anything processWithAI threw would reach the loop's catch block)
ProviderDone ==
  /\ pc = "ai_wait"
  /\ UNCHANGED call
  /\ \E r \in ProviderResponses :
       LET res == ProcessFinish(r)
           c1  == [cyc EXCEPT !.pres = ProviderClass(r), !.text = r.text]
       IN  IF res.kind = "throw"
           THEN /\ out' = Settle(out, "provider")
                /\ Thrown(consecutiveErrors, config, [c1 EXCEPT !.threw = "process"])
           ELSE IF HasResult(res)
           THEN /\ pc' = "submitting"
                /\ out' = Issue(Settle(out, "provider"), "submit")
                /\ cyc' = [c1 EXCEPT !.submits = @ + 1, !.submitted = res]
                /\ UNCHANGED << exitCode, held, config, consecutiveErrors, win, faults >>
           ELSE /\ pc' = "sleep"
                /\ out' = Settle(out, "provider")
                /\ cyc' = c1
                /\ held' = {}
                /\ UNCHANGED << exitCode, config, consecutiveErrors, win, faults >>
  /\ UNCHANGED << argv, env, file, faultBudget, ackBudget, acks, diskFaults,
                  setupSaved, setup, printed >>

\* variant: a failed submission is sent again
SubmitDone_Retries ==
  /\ pc = "submitting"
  /\ UNCHANGED call
  /\ faults < faultBudget
  /\ \E r \in CoordResponses : r.body = NoBody /\ submitResult(r).thrown
  /\ cyc' = [cyc EXCEPT !.sres = "fail", !.submits = @ + 1]
  /\ faults' = faults + 1
  /\ UNCHANGED << pc, exitCode, argv, env, file, config, consecutiveErrors, held,
                  out, faultBudget, ackBudget, acks, diskFaults, setupSaved,
                  setup, printed, win >>

\* the submission is answered: on an acknowledgement the stats grow and the
\* identity is saved; a failed submission or a failed save is thrown
SubmitDone ==
  /\ pc = "submitting"
  /\ UNCHANGED call
  /\ out' = Settle(out, "submit")
  /\ \E r \in CoordResponses, diskOk \in BOOLEAN :
       /\ r.body = NoBody
       /\ IF submitResult(r).thrown
          THEN /\ diskOk
               /\ faults < faultBudget
               /\ Thrown(consecutiveErrors, config,
                         [cyc EXCEPT !.sres = "fail", !.threw = "submit"])
               /\ UNCHANGED << file, diskFaults, setupSaved, acks >>
          ELSE LET cfg == [config EXCEPT !.stats = Reward(config.stats, config.role)]
               IN  /\ acks' = acks + (IF Acknowledged(r) THEN 1 ELSE 0)
                   /\ IF diskOk
                      THEN /\ config' = cfg
                           /\ file' = Written(cfg)
                           /\ pc' = "sleep"
                           /\ held' = {}
                           /\ cyc' = [cyc EXCEPT !.sres = "ack", !.saved = "ok"]
                           /\ UNCHANGED << exitCode, consecutiveErrors, diskFaults,
                                           setupSaved, win, faults >>
                      ELSE /\ diskFaults < MaxDiskFaults
                           /\ faults < faultBudget
                           /\ Thrown(consecutiveErrors, cfg,
                                     [cyc EXCEPT !.sres = "ack", !.saved = "fail",
                                                 !.threw = "save"])
                           /\ diskFaults' = diskFaults + 1
                           /\ UNCHANGED << file, setupSaved >>
  /\ UNCHANGED << argv, env, faultBudget, ackBudget, setup, printed >>

\* the backoff sleep is over: the counter is reset
\* variant: the backoff sleep replaces the poll sleep
BackoffDone_SkipsPoll ==
  /\ pc = "backoff"
  /\ UNCHANGED call
  /\ consecutiveErrors' = 0
  /\ pc' = "fetching"
  /\ out' = Issue(out, "fetch")
  /\ cyc' = NewCycle(0, config.stats)
  /\ UNCHANGED << exitCode, argv, env, file, config, held, faults,
                  faultBudget, ackBudget, acks, diskFaults, setupSaved, setup,
                  printed, win >>

BackoffDone ==
  /\ pc = "backoff"
  /\ UNCHANGED call
  /\ consecutiveErrors' = 0
  /\ pc' = "sleep"
  /\ UNCHANGED << exitCode, argv, env, file, config, held, out, faults,
                  faultBudget, ackBudget, acks, diskFaults, setupSaved, setup,
                  printed, cyc, win >>

\* variant: the poll timer fires on its own, whatever the loop waits for
SleepDone_Interval ==
  /\ pc \in {"sleep", "ai_wait", "submitting"}
  /\ UNCHANGED call
  /\ pc' = "fetching"
  /\ out' = Issue(out, "fetch")
  /\ cyc' = NewCycle(consecutiveErrors, config.stats)
  /\ win' = win
  /\ UNCHANGED << exitCode, argv, env, file, config, consecutiveErrors, held,
                  faults, faultBudget, ackBudget, acks, diskFaults, setupSaved,
                  setup, printed >>

\* the poll sleep is over: the next cycle starts with a fetch
SleepDone ==
  /\ pc = "sleep"
  /\ UNCHANGED call
  /\ pc' = "fetching"
  /\ out' = Issue(out, "fetch")
  /\ cyc' = NewCycle(consecutiveErrors, config.stats)
  /\ win' = IF cyc.failed /\ win.len < MAX_CONSECUTIVE_ERRORS
               /\ ~(consecutiveErrors = 0 /\ ~win.start0)
            THEN win
            ELSE NewWindow(consecutiveErrors, config.stats.errors)
  /\ UNCHANGED << exitCode, argv, env, file, config, consecutiveErrors, held,
                  faults, faultBudget, ackBudget, acks, diskFaults, setupSaved,
                  setup, printed >>

\* what handleShutdown prints: the stats of the identity it loads from the
\* file, and nothing when it loads none
FinalStats(f) ==
  IF loadConfig(f).value = NoIdentity THEN NothingPrinted
  ELSE [ shown     |-> TRUE,
         completed |-> loadConfig(f).value.stats.completed,
         points    |-> loadConfig(f).value.stats.points ]

\* variant: the handler prints and the loop goes on
Shutdown_LoopGoesOn ==
  /\ pc # "exited" /\ exitCode = -1
  /\ UNCHANGED call
  /\ exitCode' = 0
  /\ printed' = FinalStats(file)
  /\ UNCHANGED << pc, out, held, argv, env, file, config, consecutiveErrors, faults,
                  faultBudget, ackBudget, acks, diskFaults, setupSaved, setup,
                  cyc, win >>

\* SIGINT / SIGTERM: handleShutdown prints and exits
Shutdown ==
  /\ pc # "exited"
  /\ UNCHANGED call
  /\ pc' = "exited"
  /\ exitCode' = 0
  /\ out' = NoRequests
  /\ held' = {}
  /\ printed' = FinalStats(file)
  /\ UNCHANGED << argv, env, file, config, consecutiveErrors, faults,
                  faultBudget, ackBudget, acks, diskFaults, setupSaved, setup,
                  cyc, win >>

Next ==
  \/ MainLoaded
  \/ MainCliSetup
  \/ MainInteractiveSetup
  \/ RegisterDone
  \/ FetchDone
  \/ OpenClawDone
  \/ ProviderDone
  \/ SubmitDone
  \/ BackoffDone
  \/ SleepDone
  \/ Shutdown

Spec == Init /\ [][Next]_vars

\* every request is answered and every timer fires; signals need not come
Fairness ==
  /\ WF_vars(FetchDone)
  /\ WF_vars(OpenClawDone)
  /\ WF_vars(ProviderDone)
  /\ WF_vars(SubmitDone)
  /\ WF_vars(BackoffDone)
  /\ WF_vars(SleepDone)

\* the runs under the fairness conditions: the long streak of failed
\* fetches, a non-interactive setup, and an interactive one inside OpenClaw
LiveRuns ==
  { Run(BackoffLaunch, MaxStreak, 0),
    Run([file |-> NoFile, argv |-> Flags("trend_researcher", "gemini", "flag-key"),
         env |-> EnvNone], MaxFaults, MaxAcks),
    Run([file |-> NoFile, argv |-> NoFlags,
         env |-> [k \in EnvKeys \cup OpenClawKeys |-> IF k = "OPENCLAW" THEN "1" ELSE Null]],
        MaxFaults, MaxAcks) }

LiveInit == \E r \in LiveRuns : InitRun(r)

LiveSpec == LiveInit /\ [][Next]_vars /\ Fairness

\* ------------------------------------------------------------------------
\* The config store and the extractor applied on their own
\* ------------------------------------------------------------------------

\* identities as setup and the loop build them: strings or null for the
\* members, counts for the stats
Identities ==
  { [ name |-> n, role |-> r, model |-> m, ai_api_key |-> k,
      agent_id |-> "agent-1", api_key |-> ak,
      stats |-> [completed |-> n1, points |-> n1 * ROLES[r], errors |-> e] ] :
    n \in {"TrendBot", "null"}, r \in {"script_writer", "trend_researcher"},
    m \in {"none", "gemini"}, k \in {Null, "flag-key"}, ak \in {Null, "key-1"},
    n1 \in {0, 1, 12}, e \in {0, 10} }

\* one JSON value each
JSONValues ==
  { <<"{", "\"a\"", ":", "1", "}">>,
    <<"{", "\"a\"", ":", " ", "[", "1", ",", "0", ",", "1", "]", "}">>,
    <<"[", "{", "\"a\"", ":", "1", "}", "]">>,
    <<"[", "{", "\"a\"", ":", "1", "}", ",", "{", "\"a\"", ":", "0", "}", "]">>,
    <<"[", "1", ",", "0", "]">>,
    <<"[", "]">>,
    <<"0">>, <<"false">>, <<"\"\"">>, <<"null">>, <<"\"a\"">> }

\* the value as it stands, or wrapped in a code fence
Wrapped(v) ==
  { v,
    <<Fence, "json", "\n">> \o v \o <<"\n", Fence>>,
    <<Fence, "\n">> \o v \o <<"\n", Fence>> }

\* prose before and after the value, with and without braces and brackets
ProseBefore ==
  { << >>, <<"Sure", "!", " ">>, <<"use", " ", "{", "x", "}", ":", " ">>,
    <<"see", " ", "[", "x", "]", ":", " ">> }

ProseAfter ==
  { << >>, <<" ", "done", ".">>, <<" ", "{", "ok", "}">>, <<" ", "[", "ok", "]">> }

\* the raw texts handed to the extractor, each with the JSON value it was
\* built around (<< >> where it was built around none)
RawTexts ==
  { [text |-> p \o w \o q, span |-> v] :
      p \in ProseBefore, q \in ProseAfter,
      <<v, w>> \in UNION {{v} \X Wrapped(v) : v \in JSONValues} }
  \cup { [text |-> t, span |-> << >>] :
           t \in { <<"not", " ", "json", " ", "at", " ", "all">>,
                   <<Fence, "js", "\n", "{", "\"a\"", ":", "1", "}", "\n", Fence>>,
                   <<Fence, "\n", "{", "x", "}", "\n", Fence, " ", "[", "1", "]">> } }

\* the CLANKERBLOX_SERVER variable and the --server flag of a launch
ServerInputs ==
  { [env |-> e, flag |-> f] :
      e \in {Null, "", "http://env.example:8000"},
      f \in {Null, "http://flag.example:8000"} }

\* a stored identity with a provider backend, and an environment
ApiKeyInputs ==
  { [cfg |-> Stored(m, k, "agent-1"), env |-> e] :
      m \in AI_BACKEND_KEYS, k \in {Null, "", "stored-key"},
      e \in {EnvNone, EnvWithKeys} }

\* the flags of a non-interactive setup, and an environment
CliSetupInputs ==
  { [flags |-> Flags("trend_researcher", m, k), env |-> e] :
      m \in Models, k \in {Null, "flag-key"}, e \in {EnvNone, EnvWithKeys} }

PureInit ==
  /\ pc = "pure"
  /\ exitCode = -1
  /\ file = NoFile
  /\ argv = NoFlags
  /\ env = EnvNone
  /\ faultBudget = 0
  /\ ackBudget = 0
  /\ config = NoIdentity
  /\ consecutiveErrors = 0
  /\ held = {}
  /\ out = NoRequests
  /\ faults = 0
  /\ acks = 0
  /\ diskFaults = 0
  /\ setupSaved = "none"
  /\ setup = NoSetup
  /\ printed = NothingPrinted
  /\ cyc = NewCycle(0, ZeroStats)
  /\ win = NewWindow(0, 0)
  /\ \/ \E id \in Identities :
          call = [fn |-> "saveConfig", arg |-> id, span |-> << >>,
                  ret |-> Null, done |-> FALSE]
     \/ \E t \in RawTexts :
          call = [fn |-> "extractJSON", arg |-> t.text, span |-> t.span,
                  ret |-> Null, done |-> FALSE]
     \/ \E a \in ServerInputs :
          call = [fn |-> "SERVER_URL", arg |-> a, span |-> << >>,
                  ret |-> Null, done |-> FALSE]
     \/ \E a \in ApiKeyInputs :
          call = [fn |-> "apiKey", arg |-> a, span |-> << >>,
                  ret |-> Null, done |-> FALSE]
     \/ \E a \in CliSetupInputs :
          call = [fn |-> "cliSetup", arg |-> a, span |-> << >>,
                  ret |-> Null, done |-> FALSE]

\* saveConfig(identity), the write succeeding
CallSaveConfig ==
  /\ pc = "pure" /\ call.fn = "saveConfig" /\ ~call.done
  /\ file' = Written(call.arg)
  /\ call' = [call EXCEPT !.fn = "loadConfig"]
  /\ UNCHANGED << pc, exitCode, argv, env, config, consecutiveErrors, held,
                  out, faults, faultBudget, ackBudget, acks, diskFaults,
                  setupSaved, setup, printed, cyc, win >>

\* loadConfig() after it
CallLoadConfig ==
  /\ pc = "pure" /\ call.fn = "loadConfig" /\ ~call.done
  /\ call' = [call EXCEPT !.ret = loadConfig(file).value, !.done = TRUE]
  /\ UNCHANGED << pc, exitCode, argv, env, file, config, consecutiveErrors,
                  held, out, faults, faultBudget, ackBudget, acks, diskFaults,
                  setupSaved, setup, printed, cyc, win >>

\* extractJSON(text)
CallExtractJSON ==
  /\ pc = "pure" /\ call.fn = "extractJSON" /\ ~call.done
  /\ call' = [call EXCEPT !.ret = extractJSON(call.arg), !.done = TRUE]
  /\ UNCHANGED << pc, exitCode, argv, env, file, config, consecutiveErrors,
                  held, out, faults, faultBudget, ackBudget, acks, diskFaults,
                  setupSaved, setup, printed, cyc, win >>

\* the module-level constant SERVER_URL is computed
CallServerUrl ==
  /\ pc = "pure" /\ call.fn = "SERVER_URL" /\ ~call.done
  /\ call' = [call EXCEPT !.ret = SERVER_URL(call.arg.env, call.arg.flag),
                          !.done = TRUE]
  /\ UNCHANGED << pc, exitCode, argv, env, file, config, consecutiveErrors,
                  held, out, faults, faultBudget, ackBudget, acks, diskFaults,
                  setupSaved, setup, printed, cyc, win >>

\* processWithAI picks the credential for the provider call
CallApiKey ==
  /\ pc = "pure" /\ call.fn = "apiKey" /\ ~call.done
  /\ call' = [call EXCEPT !.ret = ApiKeyFor(call.arg.cfg, call.arg.env),
                          !.done = TRUE]
  /\ UNCHANGED << pc, exitCode, argv, env, file, config, consecutiveErrors,
                  held, out, faults, faultBudget, ackBudget, acks, diskFaults,
                  setupSaved, setup, printed, cyc, win >>

\* cliSetup builds the identity, its backend credential included
CallCliSetup ==
  /\ pc = "pure" /\ call.fn = "cliSetup" /\ ~call.done
  /\ call' = [call EXCEPT !.ret = cliSetupConfig(call.arg.flags, call.arg.env),
                          !.done = TRUE]
  /\ UNCHANGED << pc, exitCode, argv, env, file, config, consecutiveErrors,
                  held, out, faults, faultBudget, ackBudget, acks, diskFaults,
                  setupSaved, setup, printed, cyc, win >>

PureNext ==
  \/ CallSaveConfig
  \/ CallLoadConfig
  \/ CallExtractJSON
  \/ CallServerUrl
  \/ CallApiKey
  \/ CallCliSetup

PureSpec == PureInit /\ [][PureNext]_vars

\* ------------------------------------------------------------------------
\* Properties
\* ------------------------------------------------------------------------

\* the thread is past the try / catch of a cycle, before the next fetch
CycleOver == pc \in {"sleep", "backoff"}

\* the backend of the identity is a provider and no credential is available
NoCredential ==
  /\ config.model \in AI_BACKEND_KEYS
  /\ ~TruthyStr(config.ai_api_key)
  /\ ~TruthyStr(env[AI_BACKENDS[config.model].envKey])

\* the model's text of this cycle is non-empty and the extractor finds no
\* value in it
ExtractionFailed == cyc.pres = "text" /\ extractJSON(cyc.text) = JsNull

\* C1: ten consecutive failed cycles that start with the counter at zero,
\* whatever step fails, end with exactly one backoff, the counter at zero
\* and the error stat grown by ten.
C1_TenFailuresOneBackoff ==
  (pc = "sleep" /\ cyc.failed /\ win.start0 /\ win.len = 10
     /\ win.listed)
    => /\ win.backoffs = 1
       /\ consecutiveErrors = 0
       /\ config.stats.errors = win.errs0 + 10

\* C2 as stated: a fetch without work makes no backend call and no
\* submission and leaves the counter and the stats as they were.
C2_NoWorkKeepsCounter ==
  (pc = "sleep" /\ cyc.fetched = "nowork")
    => /\ cyc.provider = 0 /\ cyc.submits = 0
       /\ consecutiveErrors = cyc.ce0
       /\ config.stats = cyc.stats0

\* C2 amended: a fetch without work makes no backend call and no submission,
\* leaves the stats as they were and resets the counter to zero.
C2_NoWorkResetsCounter ==
  (pc = "sleep" /\ cyc.fetched = "nowork")
    => /\ cyc.provider = 0 /\ cyc.submits = 0
       /\ out.provider = 0 /\ out.submit = 0
       /\ consecutiveErrors = 0
       /\ config.stats = cyc.stats0

C2_Witness ==
  pc = "sleep" /\ cyc.fetched = "nowork" /\ cyc.ce0 > 0 /\ consecutiveErrors = 0

\* C3 as stated: a transport or upstream failure of the provider call fails
\* the cycle and grows both counters.
C3_ProviderFailureCounted ==
  (CycleOver /\ cyc.pres \in {"neterr", "httperr"})
    => /\ cyc.failed
       /\ config.stats.errors = cyc.stats0.errors + 1

\* C3 amended: a transport or upstream failure of the provider call ends the
\* cycle without a result: nothing is submitted, the cycle is not failed,
\* the stats are as they were and the counter is zero.
C3_ProviderFailureSwallowed ==
  (cyc.pres \in {"neterr", "httperr"} /\ pc # "exited")
    => /\ pc = "sleep"
       /\ ~cyc.failed
       /\ cyc.submits = 0
       /\ config.stats = cyc.stats0
       /\ consecutiveErrors = 0

C3_Witness ==
  pc = "sleep" /\ cyc.pres = "httperr" /\ cyc.provider = 1 /\ cyc.stats0.errors > 0

\* C4 as stated: text from which the extractor recovers nothing makes the
\* cycle a no-op: nothing is submitted and the stats stay.
C4_ExtractionFailureNoOp ==
  ExtractionFailed
    => /\ cyc.submits = 0
       /\ config.stats = cyc.stats0

\* C4 amended: text from which the extractor recovers nothing is submitted
\* as the raw-text wrapper; the counters grow only if that submission or
\* the save after it fails.
C4_ExtractionFailureSubmitsRaw ==
  ExtractionFailed
    => /\ cyc.submits = 1
       /\ cyc.submitted = [kind |-> "raw", val |-> cyc.text]
       /\ cyc.failed => (cyc.sres = "fail" \/ cyc.saved = "fail")
       /\ (CycleOver /\ ~cyc.failed) =>
            /\ config.stats.errors = cyc.stats0.errors
            /\ config.stats.completed = cyc.stats0.completed + 1

C4_Witness ==
  pc = "sleep" /\ ExtractionFailed /\ cyc.sres = "ack" /\ cyc.saved = "ok"

\* C5: only a 404 or 204 status is "no work"; any other non-success status
\* of the work request is a failure of the cycle.
C5_OnlyNoContentIsNoWork ==
  (cyc.fetched = "nowork" /\ cyc.status # 0 /\ ~RespOk(cyc.status))
    => cyc.status \in {404, 204}

C7_Sequential ==
  /\ Cardinality(held) <= 1
  /\ out.fetch <= 1 /\ out.provider <= 1 /\ out.submit <= 1
  /\ out.fetch + out.provider + out.submit + out.register <= 1
  /\ out.fetch = 1 => (pc = "fetching" /\ held = {})
  /\ out.provider = 1 => pc = "ai_wait"
  /\ out.submit = 1 => pc = "submitting"

C7_Witness ==
  pc = "submitting" /\ out.submit = 1 /\ held = {"t2"} /\ faults = 1

\* C9 as stated: a failed save, at setup or after a cycle, is only logged:
\* the process does not exit and the cycle does not count as an error.
C9_SaveFailureOnlyLogged ==
  /\ setupSaved = "fail" => exitCode # 1
  /\ (CycleOver /\ cyc.saved = "fail") =>
        config.stats.errors = cyc.stats0.errors

\* C9 amended: a failed save after a cycle is thrown into the catch block:
\* both counters grow and the loop goes on with the identity in memory and
\* its grown stats; a failed save at the end of setup ends the process with
\* status 1 before the loop starts.
C9_SaveFailureThrown ==
  /\ setupSaved = "fail" =>
       /\ pc = "exited" /\ exitCode = 1
       /\ cyc.fetched = "pending" /\ out.fetch = 0
  /\ (CycleOver /\ cyc.saved = "fail") =>
       /\ cyc.failed
       /\ exitCode = -1
       /\ config.stats.errors = cyc.stats0.errors + 1
       /\ config.stats.completed = cyc.stats0.completed + 1
       /\ config.stats.points = cyc.stats0.points + ROLES[config.role]
       /\ pc = "sleep" /\ consecutiveErrors = 1

C9_Witness ==
  pc = "sleep" /\ cyc.saved = "fail" /\ cyc.failed

\* C10: with a provider backend and no credential in the identity or the
\* environment, no provider request is made, nothing is submitted, and the
\* cycle is no failure of the loop.
C10_NoCredentialNoCall ==
  (NoCredential /\ pc \notin {"main", "registering"})
    => /\ out.provider = 0 /\ cyc.provider = 0
       /\ out.submit = 0 /\ cyc.submits = 0
       /\ pc \notin {"ai_wait", "submitting"}
       /\ acks = 0
       /\ config.stats.completed = cyc.stats0.completed
       /\ (cyc.fetched = "work" /\ cyc.threw # "prompt") =>
            (~cyc.failed /\ config.stats = cyc.stats0)

C10_Witness ==
  /\ pc = "sleep" /\ NoCredential /\ config.model = "deepseek"
  /\ cyc.fetched = "work" /\ ~cyc.failed

\* the places of the thread inside workerLoop
LoopPcs == {"fetching", "ai_wait", "openclaw_wait", "submitting", "backoff", "sleep"}

\* C8: once in the loop the process ends only by a signal (never with
\* status 1), every fetch is answered, and after every cycle and every
\* backoff a fetch is issued again unless a signal ends the process.
C8_LoopNeverEnds ==
  /\ [][(pc \in LoopPcs) => (exitCode' # 1)]_vars
  /\ (pc = "fetching") ~> (pc # "fetching")
  /\ (pc \in LoopPcs \ {"fetching"}) ~> (pc = "fetching" \/ exitCode = 0)

C8_Witness ==
  /\ pc = "sleep" /\ exitCode = -1
  /\ cyc.backoff /\ consecutiveErrors = 0 /\ faults = MAX_CONSECUTIVE_ERRORS

\* a provider backend is configured and a credential is available
HasCredential ==
  /\ config.model \in AI_BACKEND_KEYS
  /\ TruthyStr(ApiKeyFor(config, env))

\* C11 as stated: every work item received with a provider backend and a
\* credential configured gets exactly one POST to the provider in its cycle.
C11_OnePostPerItem ==
  (cyc.fetched = "work" /\ HasCredential)
    => cyc.provider = 1

\* C11 amended: a work item whose prompt is text gets exactly one POST to
\* the provider in its cycle, answered or failed, and a failed call ends the
\* cycle without another one; an item whose prompt is no string fails the
\* cycle before any POST.
C11_OnePostPerTextItem ==
  (cyc.fetched = "work" /\ HasCredential)
    => /\ cyc.threw # "prompt" =>
            /\ cyc.provider = 1
            /\ out.provider = (IF pc = "ai_wait" THEN 1 ELSE 0)
            /\ cyc.pres \in {"neterr", "httperr", "badjson", "empty"} =>
                 (pc \in {"sleep", "exited"} /\ cyc.submits = 0)
       /\ cyc.threw = "prompt" =>
            (cyc.provider = 0 /\ out.provider = 0 /\ cyc.failed)

C11_Witness ==
  /\ pc = "sleep" /\ cyc.fetched = "work" /\ HasCredential
  /\ cyc.pres = "neterr" /\ cyc.provider = 1

\* the launch went through the non-interactive setup with a valid role
CliSetupRan ==
  /\ setup.registrations > 0
  /\ TruthyStr(argv.name) /\ TruthyStr(argv.role) /\ argv.role \in ROLE_KEYS

\* C12 as stated: the non-interactive setup registers exactly once before
\* the loop starts, and after a successful registration the identity file
\* exists with the returned worker id and credential and zero stats.
C12_RegisteredOnceFileCreated ==
  CliSetupRan
    => /\ setup.registrations = 1
       /\ setup.loopStarted => setup.outcome = "ok"
       /\ setup.outcome = "ok" =>
            /\ file.state = "ok"
            /\ loadConfig(file).value.agent_id = setup.agent_id
            /\ loadConfig(file).value.api_key = setup.api_key
            /\ acks = 0 => loadConfig(file).value.stats = ZeroStats

\* C12 amended: the non-interactive setup registers exactly once before the
\* loop starts; after a successful registration the file is written with the
\* returned worker id and credential and zero stats, and the loop starts
\* only then; if that write fails no file exists and the process has ended
\* with status 1 without entering the loop.
C12_RegisteredOnceSaveAttempted ==
  CliSetupRan
    => /\ setup.registrations = 1
       /\ setup.loopStarted => (setup.outcome = "ok" /\ setupSaved = "ok")
       /\ setup.outcome = "ok" =>
            /\ TruthyStr(setup.agent_id)
            /\ config.agent_id = setup.agent_id /\ config.api_key = setup.api_key
            /\ config.role = argv.role /\ config.name = argv.name
            /\ setupSaved \in {"ok", "fail"}
            /\ setupSaved = "ok" =>
                 /\ file.state = "ok"
                 /\ loadConfig(file).value.agent_id = setup.agent_id
                 /\ loadConfig(file).value.api_key = setup.api_key
                 /\ loadConfig(file).value.name = argv.name /\ loadConfig(file).value.role = argv.role
                 /\ acks = 0 => loadConfig(file).value.stats = ZeroStats
            /\ setupSaved = "fail" =>
                 /\ file.state # "ok"
                 /\ pc = "exited" /\ exitCode = 1 /\ ~setup.loopStarted

C12_Witness ==
  /\ CliSetupRan /\ pc = "fetching" /\ setup.outcome = "ok"
  /\ argv.role = "trend_researcher"
  /\ file.state = "ok" /\ loadConfig(file).value.agent_id = "agent-1" /\ loadConfig(file).value.api_key = "key-1"
  /\ loadConfig(file).value.stats = ZeroStats

\* C13: a registration whose request fails or whose response lacks a worker
\* id fails: the process ends with status 1, no identity file is written,
\* the worker loop is never started and no fetch or submission is issued;
\* without a worker id the loop never runs.
C13_RejectedNeverRuns ==
  /\ setup.outcome = "rejected" =>
       /\ pc = "exited" /\ exitCode = 1
       /\ file.state # "ok" /\ setupSaved = "none" /\ diskFaults = 0
       /\ ~setup.loopStarted
       /\ out = NoRequests /\ acks = 0
       /\ cyc = NewCycle(0, ZeroStats)
  /\ (setup.registrations > 0 /\ ~TruthyStr(config.agent_id)) =>
       /\ ~setup.loopStarted
       /\ file.state # "ok"
       /\ out.fetch = 0 /\ out.provider = 0 /\ out.submit = 0

C13_Witness ==
  /\ setup.outcome = "rejected" /\ setup.registrations = 1
  /\ pc = "exited" /\ file.state = "corrupt"

\* C14: once the worker id and the access credential are obtained (loaded
\* or returned by the registration), the identity in memory has them ever
\* after, and so has the identity file whenever it holds an identity.
C14_IdentityImmutable ==
  setup.outcome \in {"loaded", "ok"}
    => /\ config.agent_id = setup.agent_id
       /\ config.api_key = setup.api_key
       /\ file.state = "ok" =>
            /\ loadConfig(file).value.agent_id = setup.agent_id
            /\ loadConfig(file).value.api_key = setup.api_key

C14_Witness ==
  /\ pc = "sleep" /\ cyc.saved = "ok" /\ argv = OverrideClaude
  /\ setup.outcome = "loaded" /\ config.model = "claude"
  /\ loadConfig(file).value.agent_id = "agent-1" /\ loadConfig(file).value.api_key = "key-1"

\* C15: on a launch with an existing identity the backend and the backend
\* credential in the identity file stay what they were when it was loaded,
\* whatever the flags override for the run.
C15_OverrideNotPersisted ==
  (setup.outcome = "loaded" /\ file.state = "ok")
    => /\ loadConfig(file).value.model = setup.model
       /\ loadConfig(file).value.ai_api_key = setup.ai_api_key

\* C16: no step of the process lowers the error stat, the completed count
\* or the points of the identity in memory; the end of a backoff resets the
\* consecutive-error counter and leaves the stats alone.
C16_StatsNeverDecrease ==
  [][ /\ config.stats.errors' >= config.stats.errors
      /\ config.stats.completed' >= config.stats.completed
      /\ config.stats.points' >= config.stats.points
      /\ (pc = "backoff" /\ pc' = "sleep") =>
            (consecutiveErrors' = 0 /\ config.stats' = config.stats) ]_vars

C16_Witness ==
  /\ pc = "sleep" /\ cyc.backoff /\ consecutiveErrors = 0
  /\ cyc.stats0.errors = 9 /\ config.stats.errors = 10

\* C17: the final stats printed on a signal that interrupts the worker loop
\* are the completed count and the points the worker has at that moment.
C17_FinalStatsCurrent ==
  (exitCode = 0 /\ setup.loopStarted /\ printed.shown)
    => /\ printed.completed = config.stats.completed
       /\ printed.points = config.stats.points

\* C18: once a signal was handled the process is over: no request is
\* outstanding, and no fetch, provider call, submission or registration is
\* issued any more.
C18_NoRequestAfterSignal ==
  /\ [](exitCode = 0 => (pc = "exited" /\ out = NoRequests /\ held = {}))
  /\ [][exitCode = 0 => UNCHANGED << out, cyc, setup, acks, file >>]_vars

C18_Witness ==
  /\ exitCode = 0 /\ pc = "exited" /\ printed.shown
  /\ cyc.submits = 1 /\ cyc.sres = "none" /\ out = NoRequests

\* C19: a failed submission does not end the process and is not repeated:
\* one submission was made for the item, the item is dropped, completed and
\* points are as before the cycle, no save was attempted, the failure is
\* counted once, and the loop is in its poll sleep before the next fetch.
C19_FailedSubmissionDropped ==
  cyc.sres = "fail"
    => /\ exitCode # 1
       /\ pc \in {"sleep", "exited"}
       /\ cyc.submits = 1 /\ out.submit = 0 /\ held = {}
       /\ cyc.saved = "none"
       /\ config.stats.completed = cyc.stats0.completed
       /\ config.stats.points = cyc.stats0.points
       /\ config.stats.errors = cyc.stats0.errors + 1
       /\ cyc.failed /\ consecutiveErrors = 1

C19_Witness ==
  /\ pc = "sleep" /\ cyc.sres = "fail" /\ cyc.tid = "t1"
  /\ cyc.submitted.kind = "json" /\ acks = 0

\* C20: a missing, unreadable or unparseable identity file is no identity:
\* main does not end the process over it but goes through setup and sends
\* the registration; only a file that holds an identity is loaded.
C20_BadFileIsAbsent ==
  /\ (file.state # "ok" /\ pc # "main" /\ exitCode # 0) =>
       (setup.registrations = 1 /\ setup.outcome # "loaded")
  /\ (pc = "registering") =>
       (file.state \in {"absent", "unreadable", "corrupt"} /\ exitCode = -1)
  /\ setup.outcome = "loaded" => (file.state = "ok" /\ setup.registrations = 0)

C20_Witness ==
  /\ pc = "registering" /\ file.state = "corrupt" /\ out.register = 1
  /\ config.role = "theme_designer"


\* C21: an identity saved with saveConfig and read back with loadConfig is
\* equal to the one saved, member for member, the nested stats (completed,
\* points, errors) included.
C21_RoundTrip ==
  (call.fn = "loadConfig" /\ call.done) => call.ret = call.arg

\* an identity with a null backend credential and non-zero stats went
\* through the file and came back
C21_Witness ==
  /\ call.fn = "loadConfig" /\ call.done
  /\ file = Written(call.arg)
  /\ call.arg.ai_api_key = Null /\ call.arg.name = "null"
  /\ call.arg.stats = [completed |-> 12, points |-> 360, errors |-> 10]
  /\ call.ret.stats = call.arg.stats


\* the texts the four strategies hand to JSON.parse, in the order of the
\* code (<< >> where a pattern does not match)
Candidates(text) ==
  << text, FenceInterior(text), Span(text, "{", "}"), Span(text, "[", "]") >>

\* the strategies whose text parses
Succeeding(text) ==
  {i \in 1..4 : JSONparse(Candidates(text)[i]) # ParseError}

ExtractDone == call.fn = "extractJSON" /\ call.done

\* C22 as stated: the strategies are tried in the fixed order, the first
\* that parses gives the result, and null is returned exactly when all four
\* fail.
C22_NullExactlyWhenAllFail ==
  ExtractDone =>
    /\ Succeeding(call.arg) # {} =>
          call.ret = JSONparse(Candidates(call.arg)[Min(Succeeding(call.arg))])
    /\ call.ret = JsNull <=> Succeeding(call.arg) = {}

\* C22 amended: the strategies are tried in the fixed order whole text,
\* fence interior, brace span, bracket span, and the first that parses
\* gives the result whatever the later ones would give; null is returned
\* when all four fail, and also when the first that parses yields the
\* JSON literal null.
C22_FirstSuccessWins ==
  ExtractDone =>
    /\ Succeeding(call.arg) # {} =>
          call.ret = JSONparse(Candidates(call.arg)[Min(Succeeding(call.arg))])
    /\ Succeeding(call.arg) = {} => call.ret = JsNull
    /\ call.ret = JsNull /\ Succeeding(call.arg) # {} =>
          JSONparse(Candidates(call.arg)[Min(Succeeding(call.arg))]) = <<"null">>
    /\ call.arg = <<"not", " ", "json", " ", "at", " ", "all">> => call.ret = JsNull
    /\ JSONparse(call.arg) # ParseError => call.ret = JSONparse(call.arg)

\* the fence interior and the brace span both parse, to different values,
\* and the fence interior is what was returned
C22_Witness ==
  /\ ExtractDone
  /\ 1 \notin Succeeding(call.arg) /\ {2, 3} \subseteq Succeeding(call.arg)
  /\ call.ret = JSONparse(FenceInterior(call.arg))
  /\ call.ret # JSONparse(Span(call.arg, "{", "}"))


\* C23: for a raw text that is one JSON value, possibly inside a code fence
\* and possibly with prose around it, the extractor returns what parsing
\* that value directly returns, also when the value is an array of objects
\* and when the prose contains braces or brackets.
C23_EmbeddedValueRecovered ==
  (ExtractDone /\ call.span # << >>) => call.ret = JSONparse(call.span)

\* an array holding one object, after plain prose and without a fence: the
\* brace span parses first and the object inside the array is returned
C23_Witness ==
  /\ ExtractDone
  /\ call.arg = <<"Sure", "!", " ", "[", "{", "\"a\"", ":", "1", "}", "]">>
  /\ call.span = <<"[", "{", "\"a\"", ":", "1", "}", "]">>
  /\ call.ret = <<"{", "\"a\"", ":", "1", "}">>


\* C24: whenever the provider's text holds a JSON value the extractor
\* recovers, the cycle goes on to the submission and what is submitted is
\* exactly that value, also when the value is false, 0, "" or another
\* value that is falsy in JavaScript.
C24_ExtractedValueSubmitted ==
  (cyc.pres = "text" /\ Succeeding(cyc.text) # {})
    => /\ cyc.submits = 1
       /\ cyc.submitted = [kind |-> "json", val |-> extractJSON(cyc.text)]

\* the provider answered 0: the whole-text parse recovers the number 0 and
\* the text wrapped as _raw_text is what goes to the coordinator
C24_Witness ==
  /\ pc = "submitting" /\ cyc.pres = "text" /\ cyc.text = <<"0">>
  /\ JSONparse(cyc.text) = <<"0">> /\ extractJSON(cyc.text) = <<"0">>
  /\ cyc.submitted = [kind |-> "raw", val |-> <<"0">>]


\* the identity names a backend that is neither in the registry nor one of
\* the two special selections
UnknownBackend ==
  config.model \notin AI_BACKEND_KEYS \cup {"none", "openclaw", Null}

C26_NoBackendLeavesAllUnaffected ==
  (config.model = "none" /\ CycleOver /\ cyc.fetched = "work")
    => /\ cyc.provider = 0 /\ cyc.submits = 0
       /\ config.stats = cyc.stats0
       /\ consecutiveErrors = cyc.ce0
       /\ ~cyc.failed /\ pc = "sleep"

\* C26 amended: with model "none" no provider request is ever made and
\* nothing is submitted; a work item with a string prompt gives no result,
\* leaves completed / points / errors alone, is no failure, and the loop
\* goes on to its poll sleep with the consecutive-error counter reset to
\* zero by the receipt of the item; a work item whose prompt is not a
\* string fails the cycle and is counted as an error.
C26_NoBackendNoResult ==
  (config.model = "none" /\ pc \notin {"main", "registering"})
    => /\ out.provider = 0 /\ cyc.provider = 0
       /\ out.submit = 0 /\ cyc.submits = 0 /\ acks = 0
       /\ pc \notin {"ai_wait", "openclaw_wait", "submitting"}
       /\ (CycleOver /\ cyc.fetched = "work" /\ cyc.threw # "prompt")
            => /\ ~cyc.failed /\ config.stats = cyc.stats0
               /\ consecutiveErrors = 0 /\ pc = "sleep" /\ exitCode = -1
       /\ (CycleOver /\ cyc.fetched = "work" /\ cyc.threw = "prompt")
            => /\ cyc.failed
               /\ config.stats.errors = cyc.stats0.errors + 1

\* a failed fetch, then a task received with model "none": no request, no
\* failure, and the counter is back at zero
C26_Witness ==
  /\ pc = "sleep" /\ config.model = "none" /\ cyc.fetched = "work"
  /\ cyc.ce0 = 1 /\ consecutiveErrors = 0 /\ cyc.provider = 0 /\ ~cyc.failed
  /\ config.stats.errors = 1


\* the launch gave --name and a --role that is not in the role catalog
InvalidRoleFlag ==
  TruthyStr(argv.name) /\ TruthyStr(argv.role) /\ argv.role \notin ROLE_KEYS

\* C27 as stated: non-interactive setup with a role outside the catalog
\* fails: no registration request is sent, no identity is created and the
\* worker loop is not entered.
C27_InvalidRoleIsFatal ==
  InvalidRoleFlag
    => (setup.registrations = 0 /\ file.state # "ok" /\ ~setup.loopStarted)

\* C27 amended: non-interactive setup with a role outside the catalog
\* goes on with the role trend_researcher: it sends its one registration
\* request, and when that is accepted and the file is written, the stored
\* identity has the role trend_researcher and the worker loop runs.
C27_InvalidRoleDefaults ==
  InvalidRoleFlag
    => /\ pc \notin {"main", "exited"} => setup.registrations = 1
       /\ setup.registrations <= 1
       /\ setup.registrations = 1 => config.role = "trend_researcher"
       /\ (setup.outcome = "ok" /\ setupSaved = "ok")
            => /\ file.state = "ok"
               /\ loadConfig(file).value.role = "trend_researcher"
               /\ loadConfig(file).value.agent_id = setup.agent_id
               /\ setup.loopStarted
       /\ setup.outcome = "rejected" => (pc = "exited" /\ exitCode = 1)

\* launched with --role wizard: registered, the identity of a
\* trend_researcher is on disk and the loop is polling
C27_Witness ==
  /\ argv.role = "wizard" /\ pc = "fetching" /\ setup.registrations = 1
  /\ file.state = "ok" /\ loadConfig(file).value.role = "trend_researcher"
  /\ setup.loopStarted


\* the explicit value when there is one, else the environment's, else the
\* fallback
ExplicitFirst(explicit, environment, fallback) ==
  IF TruthyStr(explicit) THEN explicit
  ELSE IF TruthyStr(environment) THEN environment
  ELSE fallback

\* C28: explicit operator input wins over the environment: the server from
\* CLANKERBLOX_SERVER and the provider credential from the environment are
\* used only when the --server flag, the --api-key flag or the stored
\* credential is absent; when both are present the explicit one is used.
C28_ExplicitBeatsEnvironment ==
  /\ (call.fn = "SERVER_URL" /\ call.done)
       => call.ret = ExplicitFirst(call.arg.flag, call.arg.env, DEFAULT_SERVER)
  /\ (call.fn = "apiKey" /\ call.done /\ TruthyStr(call.ret))
       => call.ret = ExplicitFirst(call.arg.cfg.ai_api_key,
                                   call.arg.env[AI_BACKENDS[call.arg.cfg.model].envKey],
                                   Null)
  /\ (call.fn = "cliSetup" /\ call.done /\ call.ret.model \in AI_BACKEND_KEYS)
       => call.ret.ai_api_key =
            ExplicitFirst(call.arg.flags.apiKey,
                          call.arg.env[AI_BACKENDS[call.ret.model].envKey], Null)

\* both the variable and the flag name a server, and the variable's is
\* the one the process talks to
C28_Witness ==
  /\ call.fn = "SERVER_URL" /\ call.done
  /\ call.arg.env = "http://env.example:8000"
  /\ call.arg.flag = "http://flag.example:8000"
  /\ call.ret = "http://env.example:8000"


\* C29: every submission is preceded, in the same cycle, by a fetch that
\* returned a work item and by the processing of that item; the task id
\* submitted is the one fetched in that cycle; at most one submission is
\* made per fetched item, and none is pending when the cycle is over.
C29_SubmitAfterFetchAndProcess ==
  /\ cyc.submits <= 1 /\ out.submit <= 1
  /\ cyc.submits = 1
       => /\ cyc.fetched = "work" /\ cyc.tid \in TaskIds
          /\ cyc.provider = 1 /\ cyc.pres = "text"
          /\ cyc.submitted.kind \in {"json", "raw"}
  /\ out.submit = 1 => (cyc.submits = 1 /\ held = {cyc.tid})
  /\ pc = "submitting" => out.submit = 1
  /\ cyc.sres # "none" => cyc.submits = 1
  /\ pc \in {"fetching", "ai_wait", "openclaw_wait", "sleep", "backoff"}
       => out.submit = 0
  /\ pc \in {"fetching", "sleep", "backoff"} => held = {}

\* task t2 was fetched, processed and submitted once, and the cycle is
\* over
C29_Witness ==
  /\ pc = "sleep" /\ cyc.fetched = "work" /\ cyc.tid = "t2"
  /\ cyc.provider = 1 /\ cyc.pres = "text" /\ cyc.submits = 1
  /\ cyc.sres = "ack" /\ out.submit = 0 /\ held = {}


\* the places of the thread inside one cycle's try block
InCycle == {"fetching", "ai_wait", "openclaw_wait", "submitting"}

\* C30: every cycle, whatever its outcome, is followed by exactly one poll
\* sleep before the next fetch: a fetch is issued only on entering the loop
\* or when a poll sleep ends, every cycle ends in the poll sleep or in the
\* backoff sleep, and the backoff sleep is followed by the poll sleep, not
\* by a fetch.
C30_PollSleepBeforeEveryFetch ==
  [][ /\ out'.fetch > out.fetch
           => (pc = "sleep" \/ (pc \in {"main", "registering"} /\ ~setup.loopStarted))
      /\ (pc \in InCycle /\ pc' \notin InCycle) => pc' \in {"sleep", "backoff", "exited"}
      /\ (pc = "backoff" /\ pc' # "backoff") => pc' \in {"sleep", "exited"}
      /\ (pc = "sleep" /\ pc' # "sleep")
           => (pc' \in {"fetching", "exited"} /\ (pc' = "fetching" => out'.fetch = 1))
    ]_vars

\* the tenth failure was followed by the backoff sleep and the poll sleep,
\* and the next fetch is on its way
C30_Witness ==
  /\ pc = "fetching" /\ out.fetch = 1 /\ exitCode = -1
  /\ faults = MAX_CONSECUTIVE_ERRORS /\ consecutiveErrors = 0
  /\ cyc.fetched = "pending" /\ config.stats.errors >= MAX_CONSECUTIVE_ERRORS


C32_CounterBelowThresholdAtFetch ==
  /\ consecutiveErrors \in 0..MAX_CONSECUTIVE_ERRORS
  /\ pc = "backoff" => consecutiveErrors = MAX_CONSECUTIVE_ERRORS
  /\ consecutiveErrors = MAX_CONSECUTIVE_ERRORS => pc \in {"backoff", "exited"}
  /\ pc = "fetching" => consecutiveErrors \in 0..(MAX_CONSECUTIVE_ERRORS - 1)
  /\ (pc \in LoopPcs /\ cyc.fetched \in {"work", "nowork"})
       => consecutiveErrors = (IF cyc.failed THEN 1 ELSE 0)
  /\ (pc = "sleep" /\ cyc.backoff) => consecutiveErrors = 0

\* nine cycles failed in a row and the tenth fetch is on its way
C32_Witness ==
  /\ pc = "fetching" /\ out.fetch = 1
  /\ consecutiveErrors = MAX_CONSECUTIVE_ERRORS - 1 /\ cyc.ce0 = consecutiveErrors


\* C33: the completed count is increased only after the coordinator
\* acknowledged a submission: its increase since the loop was entered is
\* at most (here: exactly) the number of submissions acknowledged in this
\* process, and before the loop it is not increased at all.
C33_CompletedAtMostAcks ==
  /\ setup.loopStarted
       => /\ config.stats.completed - setup.stats0.completed <= acks
          /\ config.stats.completed - setup.stats0.completed = acks
  /\ ~setup.loopStarted => acks = 0
  /\ pc = "submitting" => config.stats.completed = cyc.stats0.completed

\* a submission failed and a later one was acknowledged: one completion
\* more than at loop start
C33_Witness ==
  /\ pc = "sleep" /\ acks = 1 /\ faults >= 1 /\ config.stats.errors >= 1
  /\ cyc.sres = "ack" /\ setup.stats0.completed = 1 /\ config.stats.completed = 2


\* C34: the role is fixed during a run, and the increase of points since
\* the loop was entered is the increase of the completed count times the
\* point value of the role: the two are never updated one without the
\* other.
C34_PointsFollowCompleted ==
  setup.loopStarted
    => /\ config.role \in ROLE_KEYS
       /\ config.stats.points - setup.stats0.points
            = (config.stats.completed - setup.stats0.completed) * ROLES[config.role]
       /\ config.stats.points - cyc.stats0.points
            = (config.stats.completed - cyc.stats0.completed) * ROLES[config.role]

\* a quality_reviewer completed its first task: 15 points
C34_Witness ==
  /\ pc = "sleep" /\ setup.loopStarted /\ config.role = "quality_reviewer"
  /\ setup.stats0 = ZeroStats /\ cyc.sres = "ack"
  /\ config.stats.completed = 1 /\ config.stats.points = 15


\* C35: when a loadable identity file exists at launch, main sends no
\* registration request: it takes the stored worker id and credential and
\* goes from the load straight into the worker loop (which ends the
\* process at once when the stored role is not in the catalog); no
\* registration is sent later in that run either.
C35_LoadedNeverRegisters ==
  [][ /\ (pc = "main" /\ file.state = "ok")
           => /\ setup'.registrations = 0 /\ out'.register = 0
              /\ \/ /\ pc' = "fetching" /\ setup'.outcome = "loaded"
                    /\ setup'.loopStarted /\ out'.fetch = 1
                    /\ config'.agent_id = loadConfig(file).value.agent_id
                    /\ config'.api_key = loadConfig(file).value.api_key
                    /\ config'.stats = loadConfig(file).value.stats
                 \/ /\ pc' = "exited" /\ exitCode' = 1
                    /\ loadConfig(file).value.role \notin ROLE_KEYS
                 \/ pc' = "exited" /\ exitCode' = 0
      /\ setup.outcome = "loaded"
           => /\ setup'.registrations = 0 /\ out'.register = 0
              /\ pc' # "registering"
              /\ config'.agent_id = setup.agent_id /\ config'.api_key = setup.api_key
    ]_vars

\* the stored identity of bot-4047 was loaded and the loop is polling with
\* its worker id and credential, without any registration
C35_Witness ==
  /\ pc = "fetching" /\ setup.outcome = "loaded" /\ setup.registrations = 0
  /\ setup.loopStarted /\ config.agent_id = "bot-4047" /\ config.api_key = "key-1"
  /\ file.state = "ok" /\ loadConfig(file).value.agent_id = "bot-4047"


C37_NoTaskIdIsNoWork ==
  /\ (CycleOver /\ RespOk(cyc.status) /\ cyc.fetched = "nowork")
       => /\ pc = "sleep" /\ ~cyc.failed /\ cyc.threw = "none"
          /\ cyc.provider = 0 /\ ~cyc.emitted /\ cyc.submits = 0
          /\ out.provider = 0 /\ out.submit = 0 /\ held = {}
          /\ config.stats = cyc.stats0
          /\ consecutiveErrors = 0
  /\ cyc.fetched = "work" => (RespOk(cyc.status) /\ cyc.tid \in TaskIds)
  /\ (RespOk(cyc.status) /\ cyc.fetched # "pending" /\ cyc.tid = Null)
       => cyc.fetched = "nowork"

\* after a failed cycle a fetch was answered 200 without a task id: the
\* cycle is over, nothing was requested and the error count is unchanged
C37_Witness ==
  /\ pc = "sleep" /\ cyc.status = 200 /\ cyc.fetched = "nowork" /\ cyc.tid = Null
  /\ cyc.ce0 = 1 /\ consecutiveErrors = 0
  /\ config.stats.errors = 1 /\ config.stats = cyc.stats0

====
